---------------------------- MODULE Spec2Model ----------------------------
(***************************************************************************)
(* Model of ppcserver's connection-management core:                        *)
(*   - connector/client_counter.go : process-wide admission counters       *)
(*   - connector/client.go         : StartClient, Client.Close/State/Write,*)
(*                                   readLoop, writeLoop (errgroup-based)  *)
(*   - connector/websocket_connector.go : the upgrade handler              *)
(*   - server.go                   : Server.Start, the component           *)
(*                                   orchestrator                          *)
(* Every goroutine is a process with a program counter; every action is    *)
(* one atomic step of one goroutine (an atomic load/add, a mutex           *)
(* operation, the start or the end of a transport call).                   *)
(***************************************************************************)
EXTENDS Integers, Sequences, FiniteSets, TLC

(* ------------------------------ bounds -------------------------------- *)

\* Connections handled by the upgrade handler under Spec.
MaxConns == 2
\* Connections racing through StartClient under SpecRace.
MaxRacers == 3
\* Goroutines calling Client.Close / Client.Write / Client.State under SpecClient.
MaxCallers == 2
\* Largest ceiling given to SetMaxClients before the first connection.
MaxK == 1
\* Components registered with the Server.
MaxComps == 2
\* Connections handled under SpecLive.
MaxLive == 1
\* Connections handled under SpecShutdown.
MaxWs == 1
\* StartClient calls of the earlier revision under SpecOld.
MaxOld == 2
\* Connections handled under SpecCeiling.
MaxCeil == 2
\* Calls of websocketTransport.Write under SpecTransport.
MaxWrites == 2

(* ------------------------- program constants -------------------------- *)

\* math.MaxInt32, the default of maxClients.
MaxInt32 == 2147483647

ClientStateConnected == "Connected"
ClientStateAuthorized == "Authorized"
ClientStateClosed == "Closed"

ErrExceedMaxClients == "ErrExceedMaxClients"

(* ------------------------------- state -------------------------------- *)

VARIABLES
    \* client_counter.go
    maxClients,     \* int32 ceiling
    numClients,     \* int32 live-client count
    \* environment of the connector
    attempts,       \* connections that send an upgrade request in this run
    srvCtx,         \* TRUE once the ctx handed to WebsocketConnector.Start is cancelled
    clientsWg,      \* WebsocketConnector.clientsWg counter
    \* one upgrade handler (thread 0) and the callers of the Client's methods
    \* (threads 1..MaxCallers) per connection
    pc,             \* pc[c][t]: position of thread t working on connection c
    hn,             \* hn[c]: the value NumClients() returned to c's StartClient,
                    \* 0 when the comparison has used it
    admit,          \* "none" | "admitted" | "denied": outcome of ExceedMaxClients()
    startRet,       \* return value of StartClient, "none" while it has not returned
    contrib,        \* net amount c's StartClient has added to numClients
    \* Client
    cstate,         \* Client.state, "none" before the Client is constructed
    mu,             \* Client.mu: the set of threads holding it (empty or one)
    gpc,            \* gpc[c][g]: position of the goroutine started by g.Go number g
    gcancel,        \* TRUE once the errgroup cancelled its derived ctx
    gerr,           \* the errgroup's first non-nil error, "nil" if none
    readChCloses,   \* number of close(c.readCh) executed
    closedBy,       \* the threads whose Client.Close call went on to transport.Close
    \* Transport / websocket.Conn / peer
    conn,           \* the network connection: "none" | "open" | "peerClosed"
                    \* (the peer closed its side) | "closed" (closed on our side)
    tCloseCalls,    \* number of calls of transport.Close
    connCloseCalls, \* number of calls of websocket.Conn.Close (any caller)
    everRead,       \* transport.Read has been called
    everWritten,    \* transport.Write has been called
    \* results seen by the callers
    closeRet,       \* closeRet[c][t]: what t's Client.Close call returned
    writeRet,       \* writeRet[c][t]: what t's Client.Write call returned
    obs,            \* obs[c]: the values returned by State(), in order
    \* server.go
    octx,           \* the orchestrator's shared ctx is cancelled
    srvPc,          \* position of Server.Start
    launched,       \* number of components whose two tasks have been started
    startPc,        \* startPc[i]: position of the task running component i's Start
    shutPc,         \* shutPc[i]: position of the task running component i's Shutdown
    sgErr,          \* the orchestrator errgroup's first non-nil error
    hangs,          \* hangs[i]: component i's Shutdown never returns
    shutCalls,      \* shutCalls[j]: number of invocations of component j's Shutdown
    perIter,        \* the build gives the range variable c one instance per iteration
    startTgt,       \* startTgt[i]: the component whose Start task i called, 0 before
    shutTgt,        \* shutTgt[i]: the component whose Shutdown task i called, 0 before
    \* WebsocketConnector.Shutdown
    wsPc,           \* position of the WebsocketConnector.Shutdown call
    wsRet,          \* what it returned, "none" while it has not
    \* WebsocketConnector.Start
    listenErr,      \* what ListenAndServe returned, "none" while it is serving
    wsStartRet,     \* what WebsocketConnector.Start returned, "none" before
    \* the build
    revision,       \* the revision of client.go in the build: "errgroup" (the
                    \* latest) | "earlier" (readLoop on the calling goroutine)
    \* options.go
    optIn,          \* the arguments a, m of WithAddr(a) and WithHTTPServeMux(m), and
                    \* the Addr and Handler of the s passed to WithHTTPServer(s)
    optState,       \* the Options value and the http.Server values it may point to
    optDone,        \* the options applied so far, in order
    \* websocket_transport.go
    wt,             \* a websocketTransport: its encoding and opts.WriteTimeout
    wtSent          \* the conn.WriteMessage calls made by wt.Write, in order

counterVars == <<maxClients, numClients>>
connVars == <<attempts, srvCtx, clientsWg, pc, hn, admit, startRet, contrib>>
clientVars == <<cstate, mu, gpc, gcancel, gerr, readChCloses, closedBy>>
transportVars == <<conn, tCloseCalls, connCloseCalls, everRead, everWritten>>
callerVars == <<closeRet, writeRet, obs>>
serverVars ==
    <<octx, srvPc, launched, startPc, shutPc, sgErr, hangs, shutCalls, perIter,
      startTgt, shutTgt>>

wsVars == <<wsPc, wsRet, listenErr, wsStartRet>>

optVars == <<optIn, optState, optDone>>

wtVars == <<wt, wtSent>>

buildVars == <<revision, optVars, wtVars>>

vars ==
    <<counterVars, connVars, clientVars, transportVars, callerVars, serverVars,
      wsVars, buildVars>>

(* ------------------------------ domains ------------------------------- *)

Max(a, b) == IF a >= b THEN a ELSE b

Conns == 1 .. Max(Max(MaxConns, MaxRacers), Max(MaxOld, MaxCeil))
Callers == 1 .. MaxCallers
\* Thread 0 is the goroutine running the upgrade handler and StartClient.
Threads == {0} \cup Callers
\* The two goroutines of StartClient's errgroup, in the order of the g.Go calls.
Gos == {"go1", "go2"}
Comps == 1 .. MaxComps

\* The ceilings in force when the first connection arrives: the default, or the
\* argument of an earlier SetMaxClients call.
Ceilings == (0 .. MaxK) \cup {MaxInt32}

Errs == {"nil", "err"}


(* ------------------------ client_counter.go --------------------------- *)
\* An admission check that denies only above the ceiling.
ExceedMaxClientsStrict(n, m) == n > m

\* ExceedMaxClients(): NumClients() >= MaxClients(), on the two loaded values.
ExceedMaxClients(n, m) == n >= m

(* ------------------------------ helpers ------------------------------- *)

SetPc(c, t, v) == [pc EXCEPT ![c][t] = v]

\* The ctx StartClient's goroutines see: errgroup.WithContext(ctx) is done
\* when its parent is done or when the group cancelled it.
CtxDone(c) == srvCtx \/ gcancel[c]

\* The connection is open on our side.
ConnOpen(c) == conn[c] \in {"open", "peerClosed"}

\* websocket.Conn.Close(): closes the underlying network connection.
ConnClose(c) ==
    /\ connCloseCalls' = [connCloseCalls EXCEPT ![c] = @ + 1]
    /\ conn' = [conn EXCEPT ![c] = "closed"]

\* transport.Close(): websocketTransport.Close calls conn.Close() and returns
\* its error.
TransportClose(c) ==
    /\ tCloseCalls' = [tCloseCalls EXCEPT ![c] = @ + 1]
    /\ ConnClose(c)

\* The transport.Read calls in progress on c's transport.
ReadsInFlight(c) == {g \in Gos : gpc[c][g] = "in_read"}

\* The transport.Write calls in progress on c's transport: Client.Write calls
\* transport.Write on the caller's goroutine; writeLoop writes nothing.
WritesInFlight(c) == {t \in Threads : pc[c][t] = "in_write"}

\* The threads inside Client.Close.
InClose(c) == {t \in Threads : pc[c][t] \in {"close_lock", "close_cs", "close_tclose"}}

(* ----------------- websocket_connector.go: the handler ---------------- *)

\* The http.Server still has requests that have not been upgraded: it is
\* listening, or its Shutdown has not returned nil (Server.Shutdown returns
\* nil only when no connection is left except the hijacked ones, and an
\* upgraded connection is hijacked).
Serving == wsPc \in {"idle", "inServerShutdown"} \/ wsRet = "err"

\* Upgrader.Upgrade: on failure the handler returns, on success it defers
\* conn.Close(). Connections are numbered in the order their requests arrive.
Upgrade(c) ==
    /\ revision = "errgroup"
    /\ c \in attempts
    /\ pc[c][0] = "idle"
    /\ IF c = 1 THEN TRUE ELSE pc[c - 1][0] # "idle"
    /\ Serving
    /\ \E ok \in BOOLEAN :
          IF ok
          THEN /\ conn' = [conn EXCEPT ![c] = "open"]
               /\ pc' = SetPc(c, 0, "wgAdd")
          ELSE /\ conn' = conn
               /\ pc' = SetPc(c, 0, "done")
    /\ UNCHANGED <<counterVars, attempts, srvCtx, clientsWg, hn, admit,
                   startRet, contrib, clientVars, tCloseCalls, connCloseCalls,
                   everRead, everWritten, callerVars, serverVars, wsVars, buildVars>>

\* c.clientsWg.Add(1); defer c.clientsWg.Done(); SetReadLimit; call StartClient.
WgAdd(c) ==
    /\ pc[c][0] = "wgAdd"
    /\ clientsWg' = clientsWg + 1
    /\ pc' = SetPc(c, 0, "sc_loadNum")
    /\ UNCHANGED <<counterVars, attempts, srvCtx, hn, admit, startRet,
                   contrib, clientVars, transportVars, callerVars, serverVars,
                   wsVars, buildVars>>

(* ------------------------ client.go: StartClient ---------------------- *)
\* A SetMaxClients that also resets the client count.
SetMaxClientsResetsCount(v) ==
    /\ maxClients' = v
    /\ numClients' = 0
    /\ UNCHANGED <<connVars, clientVars, transportVars, callerVars, serverVars,
                   wsVars, buildVars>>

\* SetMaxClients(v): atomic.StoreInt32(&maxClients, v).
SetMaxClients(v) ==
    /\ maxClients' = v
    /\ UNCHANGED <<numClients, connVars, clientVars, transportVars, callerVars,
                   serverVars, wsVars, buildVars>>

\* An admission check that compares a stale client count of zero.
LoadNumZero(c) ==
    /\ pc[c][0] = "sc_loadNum"
    /\ hn' = [hn EXCEPT ![c] = 0]
    /\ pc' = SetPc(c, 0, "sc_loadMax")
    /\ UNCHANGED <<counterVars, attempts, srvCtx, clientsWg, admit, startRet,
                   contrib, clientVars, transportVars, callerVars, serverVars,
                   wsVars, buildVars>>

\* ExceedMaxClients(), first load: NumClients().
LoadNum(c) ==
    /\ pc[c][0] = "sc_loadNum"
    /\ hn' = [hn EXCEPT ![c] = numClients]
    /\ pc' = SetPc(c, 0, "sc_loadMax")
    /\ UNCHANGED <<counterVars, attempts, srvCtx, clientsWg, admit, startRet,
                   contrib, clientVars, transportVars, callerVars, serverVars,
                   wsVars, buildVars>>

\* ExceedMaxClients(), second load: MaxClients(), and the comparison.
LoadMax(c) ==
    /\ pc[c][0] = "sc_loadMax"
    /\ IF ExceedMaxClients(hn[c], maxClients)
       THEN /\ admit' = [admit EXCEPT ![c] = "denied"]
            /\ pc' = SetPc(c, 0, "sc_denyClose")
       ELSE /\ admit' = [admit EXCEPT ![c] = "admitted"]
            /\ pc' = SetPc(c, 0, "sc_incr")
    /\ hn' = [hn EXCEPT ![c] = 0]
    /\ UNCHANGED <<counterVars, attempts, srvCtx, clientsWg, startRet,
                   contrib, clientVars, transportVars, callerVars, serverVars,
                   wsVars, buildVars>>

\* What StartClient returns on the denied path, given transport.Close's error.
DenyResult(e) == IF e # "nil" THEN "nil" ELSE ErrExceedMaxClients

\* A denied path that forgets to return and goes on to admit the connection.
DenyCloseFallsThrough(c) ==
    /\ pc[c][0] = "sc_denyClose"
    /\ TransportClose(c)
    /\ pc' = SetPc(c, 0, "sc_incr")
    /\ UNCHANGED <<counterVars, attempts, srvCtx, clientsWg, hn, admit,
                   startRet, contrib, clientVars, everRead, everWritten,
                   callerVars, serverVars, wsVars, buildVars>>

\* Admission denied: transport.Close(), then return nil (Close failed) or
\* ErrExceedMaxClients.
DenyClose(c) ==
    /\ pc[c][0] = "sc_denyClose"
    /\ TransportClose(c)
    /\ \E e \in Errs : startRet' = [startRet EXCEPT ![c] = DenyResult(e)]
    /\ pc' = SetPc(c, 0, "h_wgDone")
    /\ UNCHANGED <<counterVars, attempts, srvCtx, clientsWg, hn, admit,
                   contrib, clientVars, everRead, everWritten, callerVars,
                   serverVars, wsVars, buildVars>>

\* incrNumClients() followed at once by decrNumClients(), not deferred.
IncrDecrAtOnce(c) ==
    /\ pc[c][0] = "sc_incr"
    /\ pc' = SetPc(c, 0, "sc_new")
    /\ UNCHANGED <<counterVars, attempts, srvCtx, clientsWg, hn, admit,
                   startRet, contrib, clientVars, transportVars, callerVars,
                   serverVars, wsVars, buildVars>>

\* incrNumClients(); defer decrNumClients().
Incr(c) ==
    /\ pc[c][0] = "sc_incr"
    /\ numClients' = numClients + 1
    /\ contrib' = [contrib EXCEPT ![c] = @ + 1]
    /\ pc' = SetPc(c, 0, "sc_new")
    /\ UNCHANGED <<maxClients, attempts, srvCtx, clientsWg, hn, admit,
                   startRet, clientVars, transportVars, callerVars,
                   serverVars, wsVars, buildVars>>

\* c := &Client{state: ClientStateConnected, ...}; errgroup.WithContext(ctx);
\* g.Go(writeLoop); g.Go(readLoop).
NewClient(c) ==
    /\ pc[c][0] = "sc_new"
    /\ cstate' = [cstate EXCEPT ![c] = ClientStateConnected]
    /\ gpc' = [gpc EXCEPT ![c] = [g \in Gos |-> "spawned"]]
    /\ pc' = SetPc(c, 0, "sc_waitCtx")
    /\ UNCHANGED <<counterVars, attempts, srvCtx, clientsWg, hn, admit,
                   startRet, contrib, mu, gcancel, gerr, readChCloses,
                   closedBy, transportVars, callerVars, serverVars, wsVars, buildVars>>

\* A StartClient that calls c.Close() without waiting for ctx.Done().
WaitCtxNoWait(c) ==
    /\ pc[c][0] = "sc_waitCtx"
    /\ pc' = SetPc(c, 0, "close_lock")
    /\ UNCHANGED <<counterVars, attempts, srvCtx, clientsWg, hn, admit,
                   startRet, contrib, clientVars, transportVars, callerVars,
                   serverVars, wsVars, buildVars>>

\* A StartClient that waits for ctx.Done() and goes straight to g.Wait(),
\* without closing the Client.
WaitCtxSkipClose(c) ==
    /\ pc[c][0] = "sc_waitCtx"
    /\ CtxDone(c)
    /\ pc' = SetPc(c, 0, "sc_gwait")
    /\ UNCHANGED <<counterVars, attempts, srvCtx, clientsWg, hn, admit,
                   startRet, contrib, clientVars, transportVars, callerVars,
                   serverVars, wsVars, buildVars>>

\* <-ctx.Done(), then call c.Close().
WaitCtx(c) ==
    /\ pc[c][0] = "sc_waitCtx"
    /\ CtxDone(c)
    /\ pc' = SetPc(c, 0, "close_lock")
    /\ UNCHANGED <<counterVars, attempts, srvCtx, clientsWg, hn, admit,
                   startRet, contrib, clientVars, transportVars, callerVars,
                   serverVars, wsVars, buildVars>>

\* A g.Wait() that returns the group's error without joining the goroutines.
GWaitNoJoin(c) ==
    /\ pc[c][0] = "sc_gwait"
    /\ gcancel' = [gcancel EXCEPT ![c] = TRUE]
    /\ startRet' = [startRet EXCEPT ![c] = gerr[c]]
    /\ pc' = SetPc(c, 0, "sc_decr")
    /\ UNCHANGED <<counterVars, attempts, srvCtx, clientsWg, hn, admit,
                   contrib, cstate, mu, gpc, gerr, readChCloses, closedBy,
                   transportVars, callerVars, serverVars, wsVars, buildVars>>

\* g.Wait(): returns the group's first error once both goroutines have
\* returned, and cancels the group's ctx.
GWait(c) ==
    /\ pc[c][0] = "sc_gwait"
    /\ \A g \in Gos : gpc[c][g] = "done"
    /\ gcancel' = [gcancel EXCEPT ![c] = TRUE]
    /\ startRet' = [startRet EXCEPT ![c] = gerr[c]]
    /\ pc' = SetPc(c, 0, "sc_decr")
    /\ UNCHANGED <<counterVars, attempts, srvCtx, clientsWg, hn, admit,
                   contrib, cstate, mu, gpc, gerr, readChCloses, closedBy,
                   transportVars, callerVars, serverVars, wsVars, buildVars>>
\* A StartClient that returns without its deferred decrNumClients().
DecrSkipped(c) ==
    /\ pc[c][0] = "sc_decr"
    /\ pc' = SetPc(c, 0, "h_wgDone")
    /\ UNCHANGED <<counterVars, attempts, srvCtx, clientsWg, hn, admit,
                   startRet, contrib, clientVars, transportVars, callerVars,
                   serverVars, wsVars, buildVars>>

\* The deferred decrNumClients().
Decr(c) ==
    /\ pc[c][0] = "sc_decr"
    /\ numClients' = numClients - 1
    /\ contrib' = [contrib EXCEPT ![c] = @ - 1]
    /\ pc' = SetPc(c, 0, "h_wgDone")
    /\ UNCHANGED <<maxClients, attempts, srvCtx, clientsWg, hn, admit,
                   startRet, clientVars, transportVars, callerVars,
                   serverVars, wsVars, buildVars>>
\* A handler that does not defer c.clientsWg.Done().
HandlerNoWgDone(c) ==
    /\ pc[c][0] = "h_wgDone"
    /\ pc' = SetPc(c, 0, "h_connClose")
    /\ UNCHANGED <<counterVars, attempts, srvCtx, clientsWg, hn, admit,
                   startRet, contrib, clientVars, transportVars, callerVars,
                   serverVars, wsVars, buildVars>>

\* Back in the handler: the deferred c.clientsWg.Done().
HandlerWgDone(c) ==
    /\ pc[c][0] = "h_wgDone"
    /\ clientsWg' = clientsWg - 1
    /\ pc' = SetPc(c, 0, "h_connClose")
    /\ UNCHANGED <<counterVars, attempts, srvCtx, hn, admit, startRet,
                   contrib, clientVars, transportVars, callerVars, serverVars,
                   wsVars, buildVars>>
\* A handler without the deferred conn.Close().
HandlerNoConnClose(c) ==
    /\ pc[c][0] = "h_connClose"
    /\ pc' = SetPc(c, 0, "done")
    /\ UNCHANGED <<counterVars, attempts, srvCtx, clientsWg, hn, admit,
                   startRet, contrib, clientVars, transportVars, callerVars,
                   serverVars, wsVars, buildVars>>

\* The deferred conn.Close().
HandlerConnClose(c) ==
    /\ pc[c][0] = "h_connClose"
    /\ ConnClose(c)
    /\ pc' = SetPc(c, 0, "done")
    /\ UNCHANGED <<counterVars, attempts, srvCtx, clientsWg, hn, admit,
                   startRet, contrib, clientVars, tCloseCalls, everRead,
                   everWritten, callerVars, serverVars, wsVars, buildVars>>

(* ------------------------ client.go: Client.Close --------------------- *)

\* Where a thread continues when its Client.Close call returns: StartClient
\* goes on to g.Wait(), a caller is finished.
AfterClose(t) == IF t = 0 THEN "sc_gwait" ELSE "done"

\* c.mu.Lock() in Close.
CloseLock(c, t) ==
    /\ pc[c][t] = "close_lock"
    /\ mu[c] = {}
    /\ mu' = [mu EXCEPT ![c] = {t}]
    /\ pc' = SetPc(c, t, "close_cs")
    /\ UNCHANGED <<counterVars, attempts, srvCtx, clientsWg, hn, admit,
                   startRet, contrib, cstate, gpc, gcancel, gerr,
                   readChCloses, closedBy, transportVars, callerVars,
                   serverVars, wsVars, buildVars>>

\* What Close returns to a caller that finds the Client already closed.
AlreadyClosedRetErr == "err"

AlreadyClosedRet == "nil"

\* A Close that does not look at the state before closing the transport.
CloseCSNoCheck(c, t) ==
    /\ pc[c][t] = "close_cs"
    /\ mu[c] = {t}
    /\ cstate' = [cstate EXCEPT ![c] = ClientStateClosed]
    /\ mu' = [mu EXCEPT ![c] = {}]
    /\ pc' = SetPc(c, t, "close_tclose")
    /\ UNCHANGED <<counterVars, attempts, srvCtx, clientsWg, hn, admit,
                   startRet, contrib, gpc, gcancel, gerr, readChCloses,
                   closedBy, transportVars, callerVars, serverVars, wsVars, buildVars>>
\* A Close that keeps c.mu locked while it goes on to transport.Close().
CloseCSKeepLock(c, t) ==
    /\ pc[c][t] = "close_cs"
    /\ mu[c] = {t}
    /\ IF cstate[c] = ClientStateClosed
       THEN /\ closeRet' = [closeRet EXCEPT ![c][t] = AlreadyClosedRet]
            /\ pc' = SetPc(c, t, AfterClose(t))
            /\ cstate' = cstate
            /\ mu' = [mu EXCEPT ![c] = {}]
       ELSE /\ cstate' = [cstate EXCEPT ![c] = ClientStateClosed]
            /\ pc' = SetPc(c, t, "close_tclose")
            /\ closeRet' = closeRet
            /\ mu' = mu
    /\ UNCHANGED <<counterVars, attempts, srvCtx, clientsWg, hn, admit,
                   startRet, contrib, gpc, gcancel, gerr, readChCloses,
                   closedBy, transportVars, writeRet, obs, serverVars,
                   wsVars, buildVars>>

\* The critical section of Close: return nil if already Closed, otherwise set
\* the state to Closed; c.mu.Unlock() either way.
CloseCS(c, t) ==
    /\ pc[c][t] = "close_cs"
    /\ mu[c] = {t}
    /\ mu' = [mu EXCEPT ![c] = {}]
    /\ IF cstate[c] = ClientStateClosed
       THEN /\ closeRet' = [closeRet EXCEPT ![c][t] = AlreadyClosedRet]
            /\ pc' = SetPc(c, t, AfterClose(t))
            /\ cstate' = cstate
       ELSE /\ cstate' = [cstate EXCEPT ![c] = ClientStateClosed]
            /\ pc' = SetPc(c, t, "close_tclose")
            /\ closeRet' = closeRet
    /\ UNCHANGED <<counterVars, attempts, srvCtx, clientsWg, hn, admit,
                   startRet, contrib, gpc, gcancel, gerr, readChCloses,
                   closedBy, transportVars, writeRet, obs, serverVars,
                   wsVars, buildVars>>
\* A Close whose first caller returns without calling transport.Close().
CloseTransportNoop(c, t) ==
    /\ pc[c][t] = "close_tclose"
    /\ closedBy' = [closedBy EXCEPT ![c] = @ \cup {t}]
    /\ closeRet' = [closeRet EXCEPT ![c][t] = "nil"]
    /\ pc' = SetPc(c, t, AfterClose(t))
    /\ UNCHANGED <<counterVars, attempts, srvCtx, clientsWg, hn, admit,
                   startRet, contrib, cstate, mu, gpc, gcancel, gerr,
                   readChCloses, transportVars, writeRet, obs,
                   serverVars, wsVars, buildVars>>

\* return c.transport.Close()
CloseTransport(c, t) ==
    /\ pc[c][t] = "close_tclose"
    /\ TransportClose(c)
    /\ closedBy' = [closedBy EXCEPT ![c] = @ \cup {t}]
    /\ \E e \in Errs : closeRet' = [closeRet EXCEPT ![c][t] = e]
    /\ pc' = SetPc(c, t, AfterClose(t))
    /\ UNCHANGED <<counterVars, attempts, srvCtx, clientsWg, hn, admit,
                   startRet, contrib, cstate, mu, gpc, gcancel, gerr,
                   readChCloses, everRead, everWritten, writeRet, obs,
                   serverVars, wsVars, buildVars>>

(* ------------------ client.go: readLoop and writeLoop ----------------- *)

\* Both g.Go calls run readLoop.
GoBodyBothRead(g) == "readLoop"

\* The function each g.Go call runs.
GoBody(g) == IF g = "go1" THEN "writeLoop" ELSE "readLoop"

\* A goroutine of the errgroup starts: writeLoop returns nil at once; readLoop
\* defers close(c.readCh) and calls transport.Read().
GoRun(c, g) ==
    /\ gpc[c][g] = "spawned"
    /\ IF GoBody(g) = "writeLoop"
       THEN /\ gpc' = [gpc EXCEPT ![c][g] = "done"]
            /\ everRead' = everRead
       ELSE /\ gpc' = [gpc EXCEPT ![c][g] = "in_read"]
            /\ everRead' = [everRead EXCEPT ![c] = TRUE]
    /\ UNCHANGED <<counterVars, connVars, cstate, mu, gcancel, gerr,
                   readChCloses, closedBy, conn, tCloseCalls, connCloseCalls,
                   everWritten, callerVars, serverVars, wsVars, buildVars>>

\* The peer's next message arrives and transport.Read() returns it: readLoop
\* logs it and calls Read again.
ReadMessage(c, g) ==
    /\ gpc[c][g] = "in_read"
    /\ conn[c] = "open"
    /\ UNCHANGED vars
\* A readLoop that returns nil when Read fails: the errgroup keeps no error
\* and does not cancel the per-connection ctx.
ReadErrorReturnsNil(c, g) ==
    /\ gpc[c][g] = "in_read"
    /\ conn[c] \in {"closed", "peerClosed"}
    /\ gpc' = [gpc EXCEPT ![c][g] = "done"]
    /\ readChCloses' = [readChCloses EXCEPT ![c] = @ + 1]
    /\ UNCHANGED <<counterVars, connVars, cstate, mu, gcancel, gerr, closedBy,
                   transportVars, callerVars, serverVars, wsVars, buildVars>>

\* transport.Read() fails (the connection was closed here or by the peer):
\* readLoop returns the wrapped error, its
\* deferred close(c.readCh) runs, and the errgroup records the first error and
\* cancels its ctx.
ReadError(c, g) ==
    /\ gpc[c][g] = "in_read"
    /\ conn[c] \in {"closed", "peerClosed"}
    /\ gpc' = [gpc EXCEPT ![c][g] = "done"]
    /\ readChCloses' = [readChCloses EXCEPT ![c] = @ + 1]
    /\ gerr' = [gerr EXCEPT ![c] = IF @ = "nil" THEN "readErr" ELSE @]
    /\ gcancel' = [gcancel EXCEPT ![c] = TRUE]
    /\ UNCHANGED <<counterVars, connVars, cstate, mu, closedBy, transportVars,
                   callerVars, serverVars, wsVars, buildVars>>

(* --------------------------- the environment -------------------------- *)

\* The peer closes the connection.
PeerClose(c) ==
    /\ conn[c] = "open"
    /\ conn' = [conn EXCEPT ![c] = "peerClosed"]
    /\ UNCHANGED <<counterVars, connVars, clientVars, tCloseCalls,
                   connCloseCalls, everRead, everWritten, callerVars,
                   serverVars, wsVars, buildVars>>

\* The ctx passed to WebsocketConnector.Start is cancelled (server shutdown).
CancelCtx ==
    /\ ~srvCtx
    /\ srvCtx' = TRUE
    /\ UNCHANGED <<counterVars, attempts, clientsWg, pc, hn, admit, startRet,
                   contrib, clientVars, transportVars, callerVars, serverVars,
                   wsVars, buildVars>>

(* ------------- client.go: callers of Close, Write and State ----------- *)

\* A goroutine holding the Client calls c.Close().
CallClose(c, t) ==
    /\ revision = "errgroup"
    /\ cstate[c] # "none"
    /\ pc[c][t] = "idle"
    /\ pc' = SetPc(c, t, "close_lock")
    /\ UNCHANGED <<counterVars, attempts, srvCtx, clientsWg, hn, admit,
                   startRet, contrib, clientVars, transportVars, callerVars,
                   serverVars, wsVars, buildVars>>

\* A goroutine calls c.Write(data): Write calls c.transport.Write(data).
CallWrite(c, t) ==
    /\ revision = "errgroup"
    /\ cstate[c] # "none"
    /\ pc[c][t] = "idle"
    /\ pc' = SetPc(c, t, "in_write")
    /\ everWritten' = [everWritten EXCEPT ![c] = TRUE]
    /\ UNCHANGED <<counterVars, attempts, srvCtx, clientsWg, hn, admit,
                   startRet, contrib, clientVars, conn, tCloseCalls,
                   connCloseCalls, everRead, callerVars, serverVars, wsVars, buildVars>>

\* transport.Write returns; Write returns its error. A write on a closed
\* connection fails.
WriteReturn(c, t) ==
    /\ pc[c][t] = "in_write"
    /\ \E e \in (IF ConnOpen(c) THEN Errs ELSE {"err"}) :
          writeRet' = [writeRet EXCEPT ![c][t] = e]
    /\ pc' = SetPc(c, t, "done")
    /\ UNCHANGED <<counterVars, attempts, srvCtx, clientsWg, hn, admit,
                   startRet, contrib, clientVars, transportVars, closeRet,
                   obs, serverVars, wsVars, buildVars>>

\* A goroutine calls c.State(): c.mu.Lock().
CallState(c, t) ==
    /\ revision = "errgroup"
    /\ cstate[c] # "none"
    /\ pc[c][t] = "idle"
    /\ mu[c] = {}
    /\ mu' = [mu EXCEPT ![c] = {t}]
    /\ pc' = SetPc(c, t, "state_cs")
    /\ UNCHANGED <<counterVars, attempts, srvCtx, clientsWg, hn, admit,
                   startRet, contrib, cstate, gpc, gcancel, gerr,
                   readChCloses, closedBy, transportVars, callerVars,
                   serverVars, wsVars, buildVars>>

\* A State() that reads c.state without c.mu: the read races with Close and
\* may see the state the Client was constructed with.
StateReadRacy(c) == {cstate[c], ClientStateConnected}

\* The values `return c.state` can give: the state, read under c.mu.
StateRead(c) == {cstate[c]}

\* State() returns c.state; the deferred c.mu.Unlock() runs.
StateReturn(c, t) ==
    /\ pc[c][t] = "state_cs"
    /\ mu[c] = {t}
    /\ \E v \in StateRead(c) : obs' = [obs EXCEPT ![c] = Append(@, v)]
    /\ mu' = [mu EXCEPT ![c] = {}]
    /\ pc' = SetPc(c, t, "done")
    /\ UNCHANGED <<counterVars, attempts, srvCtx, clientsWg, hn, admit,
                   startRet, contrib, cstate, gpc, gcancel, gerr,
                   readChCloses, closedBy, transportVars, closeRet, writeRet,
                   serverVars, wsVars, buildVars>>

(* ------------- websocket_connector.go: WebsocketConnector.Shutdown ---- *)

\* Shutdown(ctx) is called: c.opts.Server.Shutdown(ctx).
WsShutdownCall ==
    /\ wsPc = "idle"
    /\ wsPc' = "inServerShutdown"
    /\ UNCHANGED <<counterVars, connVars, clientVars, transportVars, callerVars,
                   serverVars, wsRet, listenErr, wsStartRet, buildVars>>

\* Server.Shutdown returns an error (ctx expired first): Shutdown returns it.
ServerShutdownErr ==
    /\ wsPc = "inServerShutdown"
    /\ wsPc' = "returned"
    /\ wsRet' = "err"
    /\ UNCHANGED <<counterVars, connVars, clientVars, transportVars, callerVars,
                   serverVars, listenErr, wsStartRet, buildVars>>

\* Server.Shutdown returns nil; Shutdown goes on to c.clientsWg.Wait().
ServerShutdownOk ==
    /\ wsPc = "inServerShutdown"
    /\ wsPc' = "wgWait"
    /\ UNCHANGED <<counterVars, connVars, clientVars, transportVars, callerVars,
                   serverVars, wsRet, listenErr, wsStartRet, buildVars>>

\* c.clientsWg.Wait() returns when the counter is zero; Shutdown returns nil.
WgWait ==
    /\ wsPc = "wgWait"
    /\ clientsWg = 0
    /\ wsPc' = "returned"
    /\ wsRet' = "nil"
    /\ UNCHANGED <<counterVars, connVars, clientVars, transportVars, callerVars,
                   serverVars, listenErr, wsStartRet, buildVars>>

\* http.ErrServerClosed, and the other errors ListenAndServe can return (it
\* never returns nil): the address is in use, Accept failed.
ErrServerClosed == "ErrServerClosed"

ListenErrs == {ErrServerClosed, "addrInUse", "acceptErr"}

\* A Start that returns nil whatever ListenAndServe returned.
StartResultAlwaysNil(err) == "nil"

\* WebsocketConnector.Start's result, given ListenAndServe's error.
StartResult(err) == IF err = ErrServerClosed THEN "nil" ELSE err

\* ListenAndServe returns err and Start returns. ErrServerClosed is returned
\* only once Server.Shutdown has been called.
ListenReturn ==
    /\ listenErr = "none"
    /\ \E err \in ListenErrs :
          /\ err = ErrServerClosed => wsPc # "idle"
          /\ listenErr' = err
          /\ wsStartRet' = StartResult(err)
    /\ UNCHANGED <<counterVars, connVars, clientVars, transportVars, callerVars,
                   serverVars, wsPc, wsRet, buildVars>>

(* ------------------------ server.go: Server.Start --------------------- *)

\* The errgroup's cancel-on-first-error: the first non-nil error e returned by
\* a task is kept and the shared ctx is cancelled.
GroupReturn(e, tag) ==
    IF e # "nil" /\ sgErr = <<>>
    THEN /\ sgErr' = tag
         /\ octx' = TRUE
    ELSE /\ sgErr' = sgErr
         /\ octx' = octx

\* The component a task launched in iteration i finds in the range variable c
\* that its closure captured, at the moment it evaluates c. With one variable
\* per iteration it is the component of iteration i; with one variable for
\* the whole loop (the language rule before Go 1.22) it is the component the
\* loop assigned last.
CapturedC(i) == IF perIter THEN i ELSE launched

\* One iteration of the loop over s.components: c is assigned the next
\* component, then g.Go(Start task) and g.Go(Shutdown task); after the last
\* iteration Server.Start calls g.Wait().
Launch ==
    /\ srvPc = "launch"
    /\ launched < MaxComps
    /\ launched' = launched + 1
    /\ startPc' = [startPc EXCEPT ![launched + 1] = "spawned"]
    /\ shutPc' = [shutPc EXCEPT ![launched + 1] = "waiting"]
    /\ srvPc' = IF launched + 1 = MaxComps THEN "wait" ELSE "launch"
    /\ UNCHANGED <<counterVars, connVars, clientVars, transportVars,
                   callerVars, octx, sgErr, hangs, shutCalls, perIter,
                   startTgt, shutTgt, wsVars, buildVars>>

\* SIGINT/SIGTERM: signal.NotifyContext cancels the ctx the errgroup's ctx is
\* derived from.
Interrupt ==
    /\ srvPc \in {"launch", "wait"}
    /\ ~octx
    /\ octx' = TRUE
    /\ UNCHANGED <<counterVars, connVars, clientVars, transportVars,
                   callerVars, srvPc, launched, startPc, shutPc, sgErr, hangs,
                   shutCalls, perIter, startTgt, shutTgt, wsVars, buildVars>>

\* The Start task of iteration i runs: it evaluates c and calls c.Start(ctx).
StartBegin(i) ==
    /\ startPc[i] = "spawned"
    /\ startPc' = [startPc EXCEPT ![i] = "running"]
    /\ startTgt' = [startTgt EXCEPT ![i] = CapturedC(i)]
    /\ UNCHANGED <<counterVars, connVars, clientVars, transportVars,
                   callerVars, octx, srvPc, launched, shutPc, sgErr, hangs,
                   shutCalls, perIter, shutTgt, wsVars, buildVars>>

\* The Start call of task i returns e.
StartReturn(i) ==
    /\ startPc[i] = "running"
    /\ startPc' = [startPc EXCEPT ![i] = "returned"]
    /\ \E e \in Errs : GroupReturn(e, <<"Start", i>>)
    /\ UNCHANGED <<counterVars, connVars, clientVars, transportVars,
                   callerVars, srvPc, launched, shutPc, hangs, shutCalls,
                   perIter, startTgt, shutTgt, wsVars, buildVars>>

\* The Shutdown task of iteration i passes <-ctx.Done(), evaluates c and
\* invokes c.Shutdown().
ShutdownBegin(i) ==
    /\ shutPc[i] = "waiting"
    /\ octx
    /\ shutPc' = [shutPc EXCEPT ![i] = "inShutdown"]
    /\ shutTgt' = [shutTgt EXCEPT ![i] = CapturedC(i)]
    /\ shutCalls' = [shutCalls EXCEPT ![CapturedC(i)] = @ + 1]
    /\ UNCHANGED <<counterVars, connVars, clientVars, transportVars,
                   callerVars, octx, srvPc, launched, startPc, sgErr, hangs,
                   perIter, startTgt, wsVars, buildVars>>

\* The Shutdown call of task i returns e (never, on a component that hangs).
ShutdownReturn(i) ==
    /\ shutPc[i] = "inShutdown"
    /\ ~hangs[shutTgt[i]]
    /\ shutPc' = [shutPc EXCEPT ![i] = "returned"]
    /\ \E e \in Errs : GroupReturn(e, <<"Shutdown", i>>)
    /\ UNCHANGED <<counterVars, connVars, clientVars, transportVars,
                   callerVars, srvPc, launched, startPc, hangs, shutCalls,
                   perIter, startTgt, shutTgt, wsVars, buildVars>>

\* A Server.Start that waits for the Start tasks only.
ServerWaitStartOnly ==
    /\ srvPc = "wait"
    /\ \A i \in Comps : startPc[i] = "returned"
    /\ srvPc' = "returned"
    /\ octx' = TRUE
    /\ UNCHANGED <<counterVars, connVars, clientVars, transportVars,
                   callerVars, launched, startPc, shutPc, sgErr, hangs,
                   shutCalls, perIter, startTgt, shutTgt, wsVars, buildVars>>

\* g.Wait() returns once every task passed to g.Go has returned; Server.Start
\* logs the group's error and returns.
ServerWait ==
    /\ srvPc = "wait"
    /\ \A i \in Comps : startPc[i] = "returned" /\ shutPc[i] = "returned"
    /\ srvPc' = "returned"
    /\ octx' = TRUE
    /\ UNCHANGED <<counterVars, connVars, clientVars, transportVars,
                   callerVars, launched, startPc, shutPc, sgErr, hangs,
                   shutCalls, perIter, startTgt, shutTgt, wsVars, buildVars>>

(* --------------------------- specifications --------------------------- *)
(* ------------- client.go, the earlier StartClient revision ------------ *)
(* StartClient runs readLoop on the calling goroutine, checks ctx only    *)
(* after a message was read, and defers decrNumClients() and c.Close().   *)

\* StartClient(ctx, transport) is called with an open transport.
OldStartClient(c) ==
    /\ revision = "earlier"
    /\ c \in attempts
    /\ pc[c][0] = "idle"
    /\ IF c = 1 THEN TRUE ELSE pc[c - 1][0] # "idle"
    /\ conn' = [conn EXCEPT ![c] = "open"]
    /\ pc' = SetPc(c, 0, "o_loadNum")
    /\ UNCHANGED <<counterVars, attempts, srvCtx, clientsWg, hn, admit,
                   startRet, contrib, clientVars, tCloseCalls, connCloseCalls,
                   everRead, everWritten, callerVars, serverVars, wsVars, buildVars>>

\* ExceedMaxClients(): the load of numClients.
OldLoadNum(c) ==
    /\ pc[c][0] = "o_loadNum"
    /\ hn' = [hn EXCEPT ![c] = numClients]
    /\ pc' = SetPc(c, 0, "o_loadMax")
    /\ UNCHANGED <<counterVars, attempts, srvCtx, clientsWg, admit, startRet,
                   contrib, clientVars, transportVars, callerVars, serverVars,
                   wsVars, buildVars>>

\* ExceedMaxClients(): the load of maxClients and the comparison.
OldLoadMax(c) ==
    /\ pc[c][0] = "o_loadMax"
    /\ IF ExceedMaxClients(hn[c], maxClients)
       THEN /\ admit' = [admit EXCEPT ![c] = "denied"]
            /\ pc' = SetPc(c, 0, "o_denyClose")
       ELSE /\ admit' = [admit EXCEPT ![c] = "admitted"]
            /\ pc' = SetPc(c, 0, "o_new")
    /\ UNCHANGED <<counterVars, attempts, srvCtx, clientsWg, hn, startRet,
                   contrib, clientVars, transportVars, callerVars, serverVars,
                   wsVars, buildVars>>

\* Admission denied: transport.Close(), then return nil or ErrExceedMaxClients.
OldDenyClose(c) ==
    /\ pc[c][0] = "o_denyClose"
    /\ TransportClose(c)
    /\ \E e \in Errs : startRet' = [startRet EXCEPT ![c] = DenyResult(e)]
    /\ pc' = SetPc(c, 0, "done")
    /\ UNCHANGED <<counterVars, attempts, srvCtx, clientsWg, hn, admit,
                   contrib, clientVars, everRead, everWritten, callerVars,
                   serverVars, wsVars, buildVars>>

\* c := &Client{state: ClientStateConnected, ...}; defer func() {
\* decrNumClients(); _ = c.Close() }().
OldNewClient(c) ==
    /\ pc[c][0] = "o_new"
    /\ cstate' = [cstate EXCEPT ![c] = ClientStateConnected]
    /\ pc' = SetPc(c, 0, "o_incr")
    /\ UNCHANGED <<counterVars, attempts, srvCtx, clientsWg, hn, admit,
                   startRet, contrib, mu, gpc, gcancel, gerr, readChCloses,
                   closedBy, transportVars, callerVars, serverVars, wsVars, buildVars>>

\* incrNumClients(); go c.writeLoop(ctx); c.readLoop(ctx) calls
\* transport.Read().
OldIncr(c) ==
    /\ pc[c][0] = "o_incr"
    /\ numClients' = numClients + 1
    /\ contrib' = [contrib EXCEPT ![c] = @ + 1]
    /\ gpc' = [gpc EXCEPT ![c]["go1"] = "spawned"]
    /\ everRead' = [everRead EXCEPT ![c] = TRUE]
    /\ pc' = SetPc(c, 0, "o_inRead")
    /\ UNCHANGED <<maxClients, attempts, srvCtx, clientsWg, hn, admit,
                   startRet, cstate, mu, gcancel, gerr, readChCloses, closedBy,
                   conn, tCloseCalls, connCloseCalls, everWritten, callerVars,
                   serverVars, wsVars, buildVars>>

\* The goroutine of `go c.writeLoop(ctx)`: writeLoop has an empty body.
OldWriteLoop(c) ==
    /\ pc[c][0] \notin {"idle", "o_loadNum", "o_loadMax", "o_denyClose", "o_new",
                        "o_incr"}
    /\ gpc[c]["go1"] = "spawned"
    /\ gpc' = [gpc EXCEPT ![c]["go1"] = "done"]
    /\ UNCHANGED <<counterVars, connVars, cstate, mu, gcancel, gerr,
                   readChCloses, closedBy, transportVars, callerVars,
                   serverVars, wsVars, buildVars>>

\* The peer's next message arrives and transport.Read() returns it; readLoop
\* logs it and reaches its select.
OldReadMessage(c) ==
    /\ pc[c][0] = "o_inRead"
    /\ conn[c] = "open"
    /\ pc' = SetPc(c, 0, "o_select")
    /\ UNCHANGED <<counterVars, attempts, srvCtx, clientsWg, hn, admit,
                   startRet, contrib, clientVars, transportVars, callerVars,
                   serverVars, wsVars, buildVars>>

\* select { case <-ctx.Done(): return; default: }: readLoop returns when ctx
\* is done, else calls transport.Read() again.
OldSelect(c) ==
    /\ pc[c][0] = "o_select"
    /\ pc' = SetPc(c, 0, IF srvCtx THEN "o_decr" ELSE "o_inRead")
    /\ UNCHANGED <<counterVars, attempts, srvCtx, clientsWg, hn, admit,
                   startRet, contrib, clientVars, transportVars, callerVars,
                   serverVars, wsVars, buildVars>>

\* transport.Read() fails (the connection was closed here or by the peer):
\* readLoop returns and StartClient reaches `return nil`.
OldReadError(c) ==
    /\ pc[c][0] = "o_inRead"
    /\ conn[c] \in {"closed", "peerClosed"}
    /\ pc' = SetPc(c, 0, "o_decr")
    /\ UNCHANGED <<counterVars, attempts, srvCtx, clientsWg, hn, admit,
                   startRet, contrib, clientVars, transportVars, callerVars,
                   serverVars, wsVars, buildVars>>

\* The deferred function: decrNumClients(), then c.Close().
OldDecr(c) ==
    /\ pc[c][0] = "o_decr"
    /\ numClients' = numClients - 1
    /\ contrib' = [contrib EXCEPT ![c] = @ - 1]
    /\ pc' = SetPc(c, 0, "o_close_lock")
    /\ UNCHANGED <<maxClients, attempts, srvCtx, clientsWg, hn, admit,
                   startRet, clientVars, transportVars, callerVars,
                   serverVars, wsVars, buildVars>>

\* Where a thread continues when its Client.Close call returns: StartClient
\* returns, a caller is finished.
OldAfterClose(t) == IF t = 0 THEN "o_return" ELSE "done"

\* c.mu.Lock() in Close.
OldCloseLock(c, t) ==
    /\ pc[c][t] = "o_close_lock"
    /\ mu[c] = {}
    /\ mu' = [mu EXCEPT ![c] = {t}]
    /\ pc' = SetPc(c, t, "o_close_cs")
    /\ UNCHANGED <<counterVars, attempts, srvCtx, clientsWg, hn, admit,
                   startRet, contrib, cstate, gpc, gcancel, gerr,
                   readChCloses, closedBy, transportVars, callerVars,
                   serverVars, wsVars, buildVars>>

\* A Close that does not look at the state before closing readCh.
OldCloseCSNoCheck(c, t) ==
    /\ pc[c][t] = "o_close_cs"
    /\ cstate' = [cstate EXCEPT ![c] = ClientStateClosed]
    /\ mu' = [mu EXCEPT ![c] = {}]
    /\ pc' = SetPc(c, t, "o_close_readCh")
    /\ UNCHANGED <<counterVars, attempts, srvCtx, clientsWg, hn, admit,
                   startRet, contrib, gpc, gcancel, gerr, readChCloses,
                   closedBy, transportVars, callerVars, serverVars, wsVars, buildVars>>

\* if c.state == ClientStateClosed { Unlock; return nil };
\* c.state = ClientStateClosed; Unlock.
OldCloseCS(c, t) ==
    /\ pc[c][t] = "o_close_cs"
    /\ mu' = [mu EXCEPT ![c] = {}]
    /\ IF cstate[c] = ClientStateClosed
       THEN /\ closeRet' = [closeRet EXCEPT ![c][t] = "nil"]
            /\ pc' = SetPc(c, t, OldAfterClose(t))
            /\ cstate' = cstate
       ELSE /\ cstate' = [cstate EXCEPT ![c] = ClientStateClosed]
            /\ pc' = SetPc(c, t, "o_close_readCh")
            /\ closeRet' = closeRet
    /\ UNCHANGED <<counterVars, attempts, srvCtx, clientsWg, hn, admit,
                   startRet, contrib, gpc, gcancel, gerr, readChCloses,
                   closedBy, transportVars, writeRet, obs, serverVars, wsVars, buildVars>>

\* close(c.readCh)
OldCloseReadCh(c, t) ==
    /\ pc[c][t] = "o_close_readCh"
    /\ readChCloses' = [readChCloses EXCEPT ![c] = @ + 1]
    /\ pc' = SetPc(c, t, "o_close_tclose")
    /\ UNCHANGED <<counterVars, attempts, srvCtx, clientsWg, hn, admit,
                   startRet, contrib, cstate, mu, gpc, gcancel, gerr, closedBy,
                   transportVars, callerVars, serverVars, wsVars, buildVars>>

\* return c.transport.Close()
OldCloseTransport(c, t) ==
    /\ pc[c][t] = "o_close_tclose"
    /\ TransportClose(c)
    /\ closedBy' = [closedBy EXCEPT ![c] = @ \cup {t}]
    /\ \E e \in Errs : closeRet' = [closeRet EXCEPT ![c][t] = e]
    /\ pc' = SetPc(c, t, OldAfterClose(t))
    /\ UNCHANGED <<counterVars, attempts, srvCtx, clientsWg, hn, admit,
                   startRet, contrib, cstate, mu, gpc, gcancel, gerr,
                   readChCloses, everRead, everWritten, writeRet, obs,
                   serverVars, wsVars, buildVars>>

\* StartClient returns nil once the deferred function has run.
OldReturn(c) ==
    /\ pc[c][0] = "o_return"
    /\ startRet' = [startRet EXCEPT ![c] = "nil"]
    /\ pc' = SetPc(c, 0, "done")
    /\ UNCHANGED <<counterVars, attempts, srvCtx, clientsWg, hn, admit,
                   contrib, clientVars, transportVars, callerVars, serverVars,
                   wsVars, buildVars>>

\* Another goroutine calls Close() on the Client.
OldCallClose(c, t) ==
    /\ revision = "earlier"
    /\ t \in Callers
    /\ pc[c][t] = "idle"
    /\ cstate[c] # "none"
    /\ pc' = SetPc(c, t, "o_close_lock")
    /\ UNCHANGED <<counterVars, attempts, srvCtx, clientsWg, hn, admit,
                   startRet, contrib, clientVars, transportVars, callerVars,
                   serverVars, wsVars, buildVars>>
(* ------------------------------ options.go ---------------------------- *)

\* The http.Server values: the &http.Server{} made by defaultOptions and the
\* one passed to WithHTTPServer.
Servers == {"default", "custom"}

\* Listen addresses: the empty string (Go's zero value, ":http") and one other.
Addrs == {"", "addr"}

\* *http.ServeMux values: nil, http.DefaultServeMux and the one passed to
\* WithHTTPServeMux.
Muxes == {"nil", "DefaultServeMux", "mux"}

OptionNames == {"WithAddr", "WithHTTPServeMux", "WithHTTPServer"}

\* defaultOptions(): the fields the three options read or write.
defaultOptions == [Addr |-> "", ServeMux |-> "DefaultServeMux", Server |-> "default"]

\* A WithAddr that leaves the http.Server alone.
WithAddrOnlyOptions(a, st) == [st EXCEPT !.o.Addr = a]

\* WithAddr(a): o.Addr = a; if o.Server != nil { o.Server.Addr = o.Addr }.
WithAddr(a, st) ==
    LET o1 == [st.o EXCEPT !.Addr = a]
    IN  [o |-> o1,
         srv |-> IF o1.Server # "nil"
                 THEN [st.srv EXCEPT ![o1.Server].Addr = o1.Addr]
                 ELSE st.srv]

\* WithHTTPServeMux(mux): o.ServeMux = mux; if o.Server != nil {
\* o.Server.Handler = mux }.
WithHTTPServeMux(mux, st) ==
    LET o1 == [st.o EXCEPT !.ServeMux = mux]
    IN  [o |-> o1,
         srv |-> IF o1.Server # "nil"
                 THEN [st.srv EXCEPT ![o1.Server].Handler = mux]
                 ELSE st.srv]

\* WithHTTPServer(s): o.Server = s; if o.Addr != "" { o.Server.Addr = o.Addr };
\* if o.ServeMux != nil { o.Server.Handler = o.ServeMux }.
WithHTTPServer(s, st) ==
    LET o1 == [st.o EXCEPT !.Server = s]
        srv1 == IF o1.Addr # "" THEN [st.srv EXCEPT ![s].Addr = o1.Addr] ELSE st.srv
        srv2 == IF o1.ServeMux # "nil"
                THEN [srv1 EXCEPT ![s].Handler = o1.ServeMux]
                ELSE srv1
    IN  [o |-> o1, srv |-> srv2]

\* The options already applied.
OptApplied == {optDone[i] : i \in 1 .. Len(optDone)}

\* NewWebsocketConnector's loop `for _, opt := range opts { opt(c.opts) }`
\* applies the next option of the list; the list holds the three options once
\* each, in any order.
ApplyOption(n) ==
    /\ n \in OptionNames \ OptApplied
    /\ optState' =
          CASE n = "WithAddr" -> WithAddr(optIn.a, optState)
            [] n = "WithHTTPServeMux" -> WithHTTPServeMux(optIn.m, optState)
            [] n = "WithHTTPServer" -> WithHTTPServer("custom", optState)
    /\ optDone' = Append(optDone, n)
    /\ UNCHANGED <<counterVars, connVars, clientVars, transportVars, callerVars,
                   serverVars, wsVars, revision, optIn, wtVars>>

\* defaultOptions() before any option is applied; sAddr and sHandler are the
\* fields of the http.Server that will be passed to WithHTTPServer.
OptionsInit(a, m, sAddr, sHandler) ==
    /\ optIn = [a |-> a, m |-> m, sAddr |-> sAddr, sHandler |-> sHandler]
    /\ optState =
          [o |-> defaultOptions,
           srv |-> [s \in Servers |->
                       IF s = "default"
                       THEN [Addr |-> "", Handler |-> "nil"]
                       ELSE [Addr |-> sAddr, Handler |-> sHandler]]]
    /\ optDone = <<>>

(* ------------------- websocket_transport.go: Write -------------------- *)

EncodingTypeJSON == "json"
EncodingTypeProtobuf == "protobuf"

\* EncodingType is a string type: the two declared values and the zero value.
EncodingTypes == {EncodingTypeJSON, EncodingTypeProtobuf, ""}

\* opts.WriteTimeout: none, and the default of one second.
NoWriteTimeout == 0
DefaultWriteTimeout == 1

Payloads == {"p1", "p2"}

\* A Write that always sends text frames.
MessageTypeAlwaysText(encoding) == "TextMessage"

\* messageType := websocket.TextMessage; if t.encoding == EncodingTypeProtobuf
\* { messageType = websocket.BinaryMessage }.
MessageType(encoding) ==
    IF encoding = EncodingTypeProtobuf THEN "BinaryMessage" ELSE "TextMessage"

\* newWebsocketTransport(conn, encoding, opts).
newWebsocketTransport(encoding, writeTimeout) ==
    [encoding |-> encoding, writeTimeout |-> writeTimeout]

\* websocketTransport.Write(data): sets the write deadline when
\* opts.WriteTimeout > 0, calls conn.WriteMessage(messageType, data) and
\* returns its error.
WebsocketTransportWrite(data) ==
    /\ Len(wtSent) < MaxWrites
    /\ \E e \in Errs :
          wtSent' = Append(wtSent,
                           [messageType |-> MessageType(wt.encoding),
                            data |-> data,
                            deadline |-> wt.writeTimeout > NoWriteTimeout,
                            err |-> e])
    /\ UNCHANGED <<counterVars, connVars, clientVars, transportVars, callerVars,
                   serverVars, wsVars, revision, optVars, wt>>

\* No connection has arrived yet; att are the connections that will.
ClientsInit(att) ==
    /\ numClients = 0
    /\ attempts = att
    /\ srvCtx = FALSE
    /\ clientsWg = 0
    /\ pc = [c \in Conns |-> [t \in Threads |-> "idle"]]
    /\ hn = [c \in Conns |-> 0]
    /\ admit = [c \in Conns |-> "none"]
    /\ startRet = [c \in Conns |-> "none"]
    /\ contrib = [c \in Conns |-> 0]
    /\ cstate = [c \in Conns |-> "none"]
    /\ mu = [c \in Conns |-> {}]
    /\ gpc = [c \in Conns |-> [g \in Gos |-> "none"]]
    /\ gcancel = [c \in Conns |-> FALSE]
    /\ gerr = [c \in Conns |-> "nil"]
    /\ readChCloses = [c \in Conns |-> 0]
    /\ closedBy = [c \in Conns |-> {}]
    /\ conn = [c \in Conns |-> "none"]
    /\ tCloseCalls = [c \in Conns |-> 0]
    /\ connCloseCalls = [c \in Conns |-> 0]
    /\ everRead = [c \in Conns |-> FALSE]
    /\ everWritten = [c \in Conns |-> FALSE]
    /\ closeRet = [c \in Conns |-> [t \in Threads |-> "none"]]
    /\ writeRet = [c \in Conns |-> [t \in Threads |-> "none"]]
    /\ obs = [c \in Conns |-> <<>>]
    /\ wsPc = "idle"
    /\ wsRet = "none"
    /\ listenErr = "none"
    /\ wsStartRet = "none"

\* NewWebsocketConnector() without options.
NoOptionsInit == OptionsInit("", "nil", "", "nil")

\* The transport the upgrade handler makes: newWebsocketTransport(conn,
\* EncodingTypeJSON, c.opts), nothing written through it yet.
HandlerTransportInit ==
    /\ wt = newWebsocketTransport(EncodingTypeJSON, DefaultWriteTimeout)
    /\ wtSent = <<>>

\* The connector, built with the latest client.go, before the first upgrade
\* request; att are the connections that will send one.
ConnectorInit(att) ==
    /\ revision = "errgroup"
    /\ ClientsInit(att)
    /\ NoOptionsInit
    /\ HandlerTransportInit

\* Server.Start has not been called (srvPc "off") or is about to run its loop.
ServerInit(p) ==
    /\ octx = FALSE
    /\ srvPc = p
    /\ launched = 0
    /\ startPc = [i \in Comps |-> "none"]
    /\ shutPc = [i \in Comps |-> "none"]
    /\ sgErr = <<>>
    /\ shutCalls = [i \in Comps |-> 0]
    /\ startTgt = [i \in Comps |-> 0]
    /\ shutTgt = [i \in Comps |-> 0]

\* The steps of one connection's handler, StartClient and its goroutines.
ConnNext(c) ==
    \/ Upgrade(c)
    \/ WgAdd(c)
    \/ LoadNum(c)
    \/ LoadMax(c)
    \/ DenyClose(c)
    \/ Incr(c)
    \/ NewClient(c)
    \/ WaitCtx(c)
    \/ CloseLock(c, 0)
    \/ CloseCS(c, 0)
    \/ CloseTransport(c, 0)
    \/ GWait(c)
    \/ Decr(c)
    \/ HandlerWgDone(c)
    \/ HandlerConnClose(c)
    \/ \E g \in Gos : GoRun(c, g) \/ ReadMessage(c, g) \/ ReadError(c, g)
    \/ PeerClose(c)

\* The steps of a goroutine calling the Client's methods.
CallerNext(c, t) ==
    \/ CallClose(c, t)
    \/ CloseLock(c, t)
    \/ CloseCS(c, t)
    \/ CloseTransport(c, t)
    \/ CallWrite(c, t)
    \/ WriteReturn(c, t)
    \/ CallState(c, t)
    \/ StateReturn(c, t)

\* The connector serving MaxConns connections.
Init ==
    /\ maxClients \in Ceilings
    /\ ConnectorInit(1 .. MaxConns)
    /\ ServerInit("off")
    /\ hangs = [i \in Comps |-> FALSE]
    /\ perIter = TRUE

Next ==
    \/ \E c \in Conns : ConnNext(c)
    \/ CancelCtx

Spec == Init /\ [][Next]_vars

\* MaxRacers connections arriving together.
InitRace ==
    /\ maxClients \in Ceilings
    /\ ConnectorInit(1 .. MaxRacers)
    /\ ServerInit("off")
    /\ hangs = [i \in Comps |-> FALSE]
    /\ perIter = TRUE

SpecRace == InitRace /\ [][Next]_vars

\* The steps of connection c's goroutines that the Go scheduler runs once
\* they can run: every step of the handler after the upgrade, of StartClient
\* and of the two loops, but neither the arrival of the request, nor the
\* peer's actions, nor the next message of a peer that keeps sending.
ConnProg(c) ==
    \/ WgAdd(c)
    \/ LoadNum(c)
    \/ LoadMax(c)
    \/ DenyClose(c)
    \/ Incr(c)
    \/ NewClient(c)
    \/ WaitCtx(c)
    \/ CloseLock(c, 0)
    \/ CloseCS(c, 0)
    \/ CloseTransport(c, 0)
    \/ GWait(c)
    \/ Decr(c)
    \/ HandlerWgDone(c)
    \/ HandlerConnClose(c)
    \/ \E g \in Gos : GoRun(c, g) \/ ReadError(c, g)

\* MaxLive connections, every runnable goroutine eventually scheduled.
InitLive ==
    /\ maxClients \in Ceilings
    /\ ConnectorInit(1 .. MaxLive)
    /\ ServerInit("off")
    /\ hangs = [i \in Comps |-> FALSE]
    /\ perIter = TRUE

SpecLive == InitLive /\ [][Next]_vars /\ \A c \in Conns : WF_vars(ConnProg(c))

\* At most one StartClient call is between its admission check and its
\* incrNumClients().
Serialized ==
    Cardinality({c \in Conns : pc[c][0] \in {"sc_loadMax", "sc_incr"}}) <= 1

\* The connector when the StartClient attempts are serialized: an attempt
\* starts its admission check only when no other attempt is between its own
\* check and its increment.
NextSerial ==
    \/ \E c \in Conns : ConnNext(c) /\ Serialized'
    \/ CancelCtx

SpecSerial == Init /\ [][NextSerial]_vars

\* MaxWs connections being served while WebsocketConnector.Shutdown runs.
InitShutdown ==
    /\ maxClients \in Ceilings
    /\ ConnectorInit(1 .. MaxWs)
    /\ ServerInit("off")
    /\ hangs = [i \in Comps |-> FALSE]
    /\ perIter = TRUE

NextShutdown ==
    \/ \E c \in Conns : ConnNext(c)
    \/ CancelCtx
    \/ WsShutdownCall
    \/ ServerShutdownErr
    \/ ServerShutdownOk
    \/ WgWait
    \/ ListenReturn

SpecShutdown == InitShutdown /\ [][NextShutdown]_vars

\* One connection whose Client is used by MaxCallers other goroutines.
InitClient ==
    /\ maxClients \in Ceilings
    /\ ConnectorInit({1})
    /\ ServerInit("off")
    /\ hangs = [i \in Comps |-> FALSE]
    /\ perIter = TRUE

NextClient ==
    \/ \E c \in Conns : ConnNext(c)
    \/ CancelCtx
    \/ \E c \in Conns, t \in Callers : CallerNext(c, t)

SpecClient == InitClient /\ [][NextClient]_vars
\* The steps of one StartClient call of the earlier revision.
OldConnNext(c) ==
    \/ OldStartClient(c)
    \/ OldLoadNum(c)
    \/ OldLoadMax(c)
    \/ OldDenyClose(c)
    \/ OldNewClient(c)
    \/ OldIncr(c)
    \/ OldWriteLoop(c)
    \/ OldReadMessage(c)
    \/ OldSelect(c)
    \/ OldReadError(c)
    \/ OldDecr(c)
    \/ OldCloseLock(c, 0)
    \/ OldCloseCS(c, 0)
    \/ OldCloseReadCh(c, 0)
    \/ OldCloseTransport(c, 0)
    \/ OldReturn(c)
    \/ PeerClose(c)

\* The steps of a goroutine that calls Close on a Client of the earlier
\* revision.
OldCallerNext(c, t) ==
    \/ OldCallClose(c, t)
    \/ OldCloseLock(c, t)
    \/ OldCloseCS(c, t)
    \/ OldCloseReadCh(c, t)
    \/ OldCloseTransport(c, t)

\* MaxOld StartClient calls of the earlier revision.
InitOld ==
    /\ maxClients \in Ceilings
    /\ revision = "earlier"
    /\ ClientsInit(1 .. MaxOld)
    /\ NoOptionsInit
    /\ HandlerTransportInit
    /\ ServerInit("off")
    /\ hangs = [i \in Comps |-> FALSE]
    /\ perIter = TRUE

NextOld ==
    \/ \E c \in Conns : OldConnNext(c)
    \/ CancelCtx

SpecOld == InitOld /\ [][NextOld]_vars

\* One connection and MaxCallers other goroutines holding its Client, the
\* build having either revision of client.go.
InitRevisions ==
    /\ maxClients \in Ceilings
    /\ revision \in {"earlier", "errgroup"}
    /\ ClientsInit({1})
    /\ NoOptionsInit
    /\ HandlerTransportInit
    /\ ServerInit("off")
    /\ hangs = [i \in Comps |-> FALSE]
    /\ perIter = TRUE

NextRevisions ==
    \/ NextClient
    \/ \E c \in Conns : OldConnNext(c)
    \/ \E c \in Conns, t \in Callers : OldCallerNext(c, t)

SpecRevisions == InitRevisions /\ [][NextRevisions]_vars
\* The connector serving MaxCeil connections while the application calls
\* SetMaxClients at any time; the ceiling starts at its default.
InitCeiling ==
    /\ maxClients = MaxInt32
    /\ ConnectorInit(1 .. MaxCeil)
    /\ ServerInit("off")
    /\ hangs = [i \in Comps |-> FALSE]
    /\ perIter = TRUE

NextCeiling ==
    \/ \E c \in Conns : ConnNext(c)
    \/ \E v \in Ceilings : SetMaxClients(v)

SpecCeiling == InitCeiling /\ [][NextCeiling]_vars
\* NewWebsocketConnector(WithAddr(a), WithHTTPServeMux(m), WithHTTPServer(s))
\* with the three options in any order, for every a, every m and every Addr
\* and Handler of s.
InitOptions ==
    /\ maxClients = MaxInt32
    /\ revision = "errgroup"
    /\ ClientsInit({})
    /\ ServerInit("off")
    /\ hangs = [i \in Comps |-> FALSE]
    /\ perIter = TRUE
    /\ \E a, sAddr \in Addrs, m, sHandler \in Muxes \ {"DefaultServeMux"} :
          OptionsInit(a, m, sAddr, sHandler)
    /\ HandlerTransportInit

NextOptions == \E n \in OptionNames : ApplyOption(n)

SpecOptions == InitOptions /\ [][NextOptions]_vars

\* A websocketTransport of any encoding and write timeout, written to up to
\* MaxWrites times.
InitTransport ==
    /\ maxClients = MaxInt32
    /\ revision = "errgroup"
    /\ ClientsInit({})
    /\ ServerInit("off")
    /\ hangs = [i \in Comps |-> FALSE]
    /\ perIter = TRUE
    /\ NoOptionsInit
    /\ \E encoding \in EncodingTypes,
          writeTimeout \in {NoWriteTimeout, DefaultWriteTimeout} :
          wt = newWebsocketTransport(encoding, writeTimeout)
    /\ wtSent = <<>>

NextTransport == \E data \in Payloads : WebsocketTransportWrite(data)

SpecTransport == InitTransport /\ [][NextTransport]_vars

\* Server.Start with MaxComps registered components, any of which may have a
\* Shutdown that never returns.
InitServer ==
    /\ maxClients = MaxInt32
    /\ ConnectorInit({})
    /\ ServerInit("launch")
    /\ hangs \in [Comps -> BOOLEAN]
    /\ perIter \in BOOLEAN

NextServer ==
    \/ Launch
    \/ Interrupt
    \/ \E i \in Comps :
          StartBegin(i) \/ StartReturn(i) \/ ShutdownBegin(i) \/ ShutdownReturn(i)
    \/ ServerWait

SpecServer == InitServer /\ [][NextServer]_vars

(* ------------------------------- claims ------------------------------- *)

\* The threads whose Client.Close call on c's Client has returned.
CloseReturned(c) == {t \in Threads : closeRet[c][t] # "none"}

\* The position of a state on the path Connected -> Authorized -> Closed.
Rank(v) ==
    CASE v = ClientStateConnected -> 0
      [] v = ClientStateAuthorized -> 1
      [] v = ClientStateClosed -> 2

\* StartClient is between the admission of c and its return.
InStartClient(c) ==
    pc[c][0] \in {"sc_new", "sc_waitCtx", "close_lock", "close_cs", "close_tclose",
                  "sc_gwait"}

\* C1: for one connection, at most one call of transport.Write is in progress
\* at any time, whatever the interleaving of the callers of Client.Write and
\* the write path.
C1_SingleWriter ==
    \A c \in Conns : Cardinality(WritesInFlight(c)) <= 1

\* C2: for one connection, transport.Read is called only by the read path
\* (the goroutine running readLoop), at most one Read call is in progress at
\* any time, and only between StartClient admitting the connection and
\* returning.
C2_SingleReader ==
    \A c \in Conns :
        /\ Cardinality(ReadsInFlight(c)) <= 1
        /\ \A g \in ReadsInFlight(c) : g = "go2"
        /\ ReadsInFlight(c) # {} => admit[c] = "admitted" /\ InStartClient(c)
        /\ \A t \in Threads : pc[c][t] # "in_read"

\* C2 witness: a Read is in progress while the Client is already Closed and a
\* caller is inside Client.Write.
C2_Witness ==
    \E c \in Conns :
        /\ ReadsInFlight(c) = {"go2"}
        /\ cstate[c] = ClientStateClosed
        /\ WritesInFlight(c) # {}

\* C3: with maxClients = k, numClients never exceeds k + 1, and every attempt
\* that was not admitted has its transport closed.
C3_CeilingPlusOne ==
    /\ numClients - 1 <= maxClients
    /\ \A c \in Conns :
          admit[c] = "denied" /\ startRet[c] # "none" => conn[c] = "closed"

\* C4: with maxClients = 1 and two connections opened together, exactly one is
\* admitted: there are never two Clients in state Connected.
C4_ExactlyOneAdmitted ==
    maxClients = 1 =>
        Cardinality({c \in Conns : cstate[c] = ClientStateConnected}) <= 1

\* C5: with a component whose Shutdown never returns, Server.Start still
\* returns once the shared ctx is cancelled: when every Start task and every
\* Shutdown task of the other components has returned, g.Wait() can return.
C5_StartReturnsDespiteHungShutdown ==
    ( /\ srvPc = "wait"
      /\ octx
      /\ \A i \in Comps :
            /\ startPc[i] = "returned"
            /\ \/ shutPc[i] = "returned"
               \/ shutPc[i] = "inShutdown" /\ hangs[shutTgt[i]] )
    => ENABLED ServerWait

\* C6: the values State() returns only move forward along Connected ->
\* Authorized -> Closed: once it has returned Closed it never returns
\* Connected or Authorized, and the state stays Closed.
C6_StateMonotonic ==
    \A c \in Conns :
        /\ \A i, j \in 1 .. Len(obs[c]) :
              i < j => Rank(obs[c][i]) <= Rank(obs[c][j])
        /\ (\E i \in 1 .. Len(obs[c]) : obs[c][i] = ClientStateClosed)
              => cstate[c] = ClientStateClosed

\* C6 witness: State() returned Connected and, later, Closed.
C6_Witness ==
    \E c \in Conns : obs[c] = <<ClientStateConnected, ClientStateClosed>>

\* C7: however many Client.Close calls run concurrently, transport.Close is
\* called at most once, by the caller that set the state to Closed; and once a
\* Close call has returned and none is in progress it has been called exactly
\* once.
C7_CloseOnce ==
    \A c \in Conns :
        cstate[c] # "none" =>
            /\ tCloseCalls[c] <= 1
            /\ Cardinality(closedBy[c]) = tCloseCalls[c]
            /\ tCloseCalls[c] = 1 => cstate[c] = ClientStateClosed
            /\ CloseReturned(c) # {} /\ InClose(c) = {} => tCloseCalls[c] = 1

\* C7 witness: three Close calls (StartClient's and two callers') have
\* returned and the transport was closed once.
C7_Witness ==
    \E c \in Conns :
        /\ Cardinality(CloseReturned(c)) >= 3
        /\ InClose(c) = {}
        /\ tCloseCalls[c] = 1

\* C8 as stated: all Close calls that have returned returned the same error.
C8_AllCloseSameError ==
    \A c \in Conns :
        \A t1, t2 \in CloseReturned(c) : closeRet[c][t1] = closeRet[c][t2]

\* C8 amended: only the Close call that closed the transport can return a
\* non-nil error (transport.Close's); every other Close call returns nil.
C8_OnlyCloserReturnsError ==
    \A c \in Conns :
        /\ \A t \in CloseReturned(c) : closeRet[c][t] # "nil" => t \in closedBy[c]
        /\ Cardinality({t \in CloseReturned(c) : closeRet[c][t] # "nil"}) <= 1

\* C8 witness: transport.Close failed: the caller that closed the transport
\* returned the error and two other Close calls returned nil.
C8_Witness ==
    \E c \in Conns :
        \E t1, t2, t3 \in Threads :
            /\ t2 # t3
            /\ closeRet[c][t1] = "err"
            /\ closeRet[c][t2] = "nil"
            /\ closeRet[c][t3] = "nil"

\* C9: when admission is denied, StartClient closes the transport and returns
\* ErrExceedMaxClients, whatever transport.Close returned.
C9_DeniedReturnsErrExceed ==
    \A c \in Conns :
        admit[c] = "denied" /\ startRet[c] # "none" =>
            /\ conn[c] = "closed"
            /\ startRet[c] = ErrExceedMaxClients

\* C10: a denied StartClient call leaves numClients as it was, constructs no
\* Client, starts no loop and never calls Read or Write on the transport; it
\* calls transport.Close once.
C10_DeniedOnlyCloses ==
    \A c \in Conns :
        admit[c] = "denied" =>
            /\ contrib[c] = 0
            /\ ~everRead[c] /\ ~everWritten[c]
            /\ cstate[c] = "none"
            /\ \A g \in Gos : gpc[c][g] = "none"
            /\ tCloseCalls[c] = (IF pc[c][0] = "sc_denyClose" THEN 0 ELSE 1)

\* C10 witness: a denied call has returned while another connection's Client
\* is live and counted.
C10_Witness ==
    \E c, d \in Conns :
        /\ admit[c] = "denied"
        /\ pc[c][0] = "done"
        /\ cstate[d] = ClientStateConnected
        /\ numClients = 1

\* C11: once a Client's state is Closed, no later Client.Write call hands its
\* data to transport.Write: no thread enters transport.Write from a state in
\* which the Client is already Closed.
C11_NoWriteAfterClosed ==
    [][\A c \in Conns, t \in Threads :
          cstate[c] = ClientStateClosed /\ pc[c][t] # "in_write"
              => pc'[c][t] # "in_write"]_vars

\* C12: for an admitted connection whose peer sends nothing, once the server
\* ctx is cancelled the read path unblocks and exits, the Client reaches
\* Closed and StartClient returns; whether the ctx is cancelled while the
\* Client is live or before StartClient starts.
C12_CancelClosesClient ==
    \A c \in Conns :
        (srvCtx /\ admit[c] = "admitted")
            ~> ( /\ gpc[c]["go2"] = "done"
                 /\ cstate[c] = ClientStateClosed
                 /\ startRet[c] # "none" )

\* C12 witness: the ctx is cancelled, StartClient's Close has just closed the
\* transport, and the read path is still inside the Read it is about to be
\* forced out of.
C12_Witness ==
    \E c \in Conns :
        /\ srvCtx
        /\ ReadsInFlight(c) = {"go2"}
        /\ conn[c] = "closed"
        /\ closedBy[c] = {0}

\* C13: Server.Start returns only after every component's Start task and
\* every component's Shutdown task has returned.
C13_ReturnsAfterAllTasks ==
    srvPc = "returned" =>
        \A i \in Comps : startPc[i] = "returned" /\ shutPc[i] = "returned"

\* C13 witness: Server.Start has returned, with the error of a Shutdown task.
C13_Witness ==
    /\ srvPc = "returned"
    /\ \E i \in Comps : sgErr = <<"Shutdown", i>>

\* C14: when a component's Start returns a non-nil error the shared ctx is
\* cancelled, and after the cancellation (by such an error or by an interrupt
\* signal) Shutdown is invoked on every registered component: once every
\* Shutdown task has made its call, no component is left without one.
C14_ErrorOrSignalShutsDownAll ==
    /\ sgErr # <<>> => octx
    /\ (\A i \in Comps : shutPc[i] \in {"inShutdown", "returned"})
          => \A j \in Comps : shutCalls[j] >= 1

\* C15: no component's Shutdown is invoked before the shared ctx is
\* cancelled, and each component's Shutdown is invoked at most once per
\* Server.Start run.
C15_ShutdownAfterCancelOnce ==
    \A j \in Comps :
        /\ shutCalls[j] <= 1
        /\ shutCalls[j] > 0 => octx

\* C16: when WebsocketConnector.Shutdown has returned, with nil or with an
\* error, no upgrade handler that passed the handshake is still about to run
\* StartClient or inside it.
C16_ShutdownWaitsForClients ==
    wsPc = "returned" =>
        \A c \in Conns : pc[c][0] \in {"idle", "h_connClose", "done"}

\* C17: for an admitted connection, StartClient returns only after both the
\* read path and the write path have exited, and it returns the first non-nil
\* error of the two paths: the read path's error, since the read path exits
\* only on a failed Read and the write path returns nil.
C17_ReturnsAfterJoinWithFirstError ==
    \A c \in Conns :
        admit[c] = "admitted" /\ startRet[c] # "none" =>
            /\ \A g \in Gos : gpc[c][g] = "done"
            /\ startRet[c] = gerr[c]
            /\ startRet[c] = "readErr"

\* C17 witness: StartClient returned the read error after the peer closed the
\* connection, with the server ctx never cancelled.
C17_Witness ==
    \E c \in Conns :
        /\ startRet[c] = "readErr"
        /\ ~srvCtx
        /\ pc[c][0] = "done"

\* C18 as stated: StartClient's call of Client.Close happens only after both
\* paths have exited.
C18_CloseAfterJoin ==
    \A c \in Conns :
        pc[c][0] \in {"close_lock", "close_cs", "close_tclose"} =>
            \A g \in Gos : gpc[c][g] = "done"

\* C18 amended: StartClient calls Client.Close once the per-connection ctx is
\* done (the server ctx is cancelled or a path returned an error), before the
\* join; it returns only after that Close call has returned and both paths
\* have exited.
C18_CloseOnCtxDoneThenJoin ==
    \A c \in Conns :
        /\ pc[c][0] \in {"close_lock", "close_cs", "close_tclose"} => CtxDone(c)
        /\ closeRet[c][0] # "none" => CtxDone(c)
        /\ admit[c] = "admitted" /\ startRet[c] # "none" =>
              /\ closeRet[c][0] # "none"
              /\ \A g \in Gos : gpc[c][g] = "done"

\* C18 witness: StartClient is inside Client.Close while the read path is
\* still blocked in Read.
C18_Witness ==
    \E c \in Conns :
        /\ pc[c][0] = "close_tclose"
        /\ ReadsInFlight(c) = {"go2"}

C20_WriteLoopDrainsQueue ==
    \A c \in Conns :
        /\ gpc[c]["go1"] = "done" => CtxDone(c)
        /\ \A t \in Callers : pc[c][t] # "in_write"

\* C21: when transport.Read returns an error the read path terminates and the
\* per-connection ctx is cancelled at once, and from then on the Client
\* reaches Closed with transport.Close called and StartClient returns.
C21_ReadErrorClosesClient ==
    /\ [](\A c \in Conns : gpc[c]["go2"] = "done" => gcancel[c])
    /\ \A c \in Conns :
          (ReadsInFlight(c) # {} /\ conn[c] \in {"closed", "peerClosed"})
              ~> ( /\ gpc[c]["go2"] = "done"
                   /\ cstate[c] = ClientStateClosed
                   /\ tCloseCalls[c] = 1
                   /\ conn[c] = "closed"
                   /\ startRet[c] = "readErr" )

\* C21 witness: the peer closed the connection, Read failed and cancelled the
\* per-connection ctx while the server ctx is not cancelled, and StartClient
\* is closing the Client.
C21_Witness ==
    \E c \in Conns :
        /\ ~srvCtx
        /\ gcancel[c]
        /\ gpc[c]["go2"] = "done"
        /\ pc[c][0] = "close_tclose"
        /\ conn[c] = "peerClosed"

\* The threads inside transport.Write or transport.Close of c's Client (the
\* read path, the only caller of transport.Read, never takes c.mu).
InTransportOp(c) ==
    {t \in Threads : pc[c][t] \in {"in_write", "close_tclose"}}

\* C22: c.mu is held only inside the critical sections of Close and State,
\* never by a thread that is inside transport.Read, Write or Close; so while
\* transport operations are in progress and nobody is in a critical section
\* the lock is free for a State() call.
C22_NoLockDuringTransportIO ==
    \A c \in Conns :
        /\ \A t \in mu[c] : pc[c][t] \in {"close_cs", "state_cs"}
        /\ mu[c] \cap InTransportOp(c) = {}
        /\ (\A t \in Threads : pc[c][t] \notin {"close_cs", "state_cs"})
              => mu[c] = {}

\* C22 witness: a State() call holds the lock while another goroutine is
\* inside Close's transport.Close() and the read path is inside Read.
C22_Witness ==
    \E c \in Conns :
        \E t1, t2 \in Threads :
            /\ pc[c][t1] = "state_cs"
            /\ mu[c] = {t1}
            /\ pc[c][t2] = "close_tclose"
            /\ ReadsInFlight(c) # {}

\* C23: WebsocketConnector.Start returns nil when ListenAndServe stopped with
\* ErrServerClosed, which happens only after Shutdown was invoked, and returns
\* ListenAndServe's error unchanged for every other cause.
C23_StartReturnsListenError ==
    wsStartRet # "none" =>
        /\ listenErr = ErrServerClosed => wsStartRet = "nil" /\ wsPc # "idle"
        /\ listenErr # ErrServerClosed => wsStartRet = listenErr

\* C23 witness: Start returned the listener's error (the address is in use)
\* without Shutdown having been invoked.
C23_Witness ==
    /\ wsStartRet = "addrInUse"
    /\ wsPc = "idle"

\* C24: ExceedMaxClients() returns true exactly when the client count it
\* loaded is >= maxClients; with the default ceiling (math.MaxInt32) no
\* attempt is denied, the client count staying below the 32-bit maximum.
C24_ExceedIffAtCeiling ==
    /\ [][\A c \in Conns :
            pc[c][0] = "sc_loadMax" /\ pc'[c][0] # "sc_loadMax" =>
                /\ admit'[c] = "denied" <=> hn[c] >= maxClients
                /\ admit'[c] = "admitted" <=> hn[c] < maxClients]_vars
    /\ [](numClients < MaxInt32)
    /\ [](maxClients = MaxInt32 => \A c \in Conns : admit[c] # "denied")

\* C24 witness: with the ceiling at 1 and one client live, an attempt that
\* loaded the count 1 has been denied.
C24_Witness ==
    \E c, d \in Conns :
        /\ maxClients = 1
        /\ numClients = 1
        /\ cstate[d] # "none"
        /\ admit[c] = "denied"
        /\ pc[c][0] = "sc_denyClose"

\* C25: if every component's Start returns nil on its own, with no interrupt
\* signal and no Start error, Server.Start returns: as long as the shared ctx
\* is not cancelled, Server.Start has a step to take without a signal (its
\* loop, a Start task starting or returning, or g.Wait() returning).
C25_ReturnsWhenStartsReturnNil ==
    (~octx /\ srvPc # "returned") =>
        ENABLED (\/ Launch
                 \/ \E i \in Comps : StartBegin(i) \/ StartReturn(i)
                 \/ ServerWait)

\* Component i's Start call returns, its Shutdown having been invoked.
StartReturnAfterShutdown(i) ==
    /\ startTgt[i] \in Comps
    /\ shutCalls[startTgt[i]] >= 1
    /\ StartReturn(i)

\* C26: if every component's Start returns once its Shutdown has been invoked
\* and every Shutdown returns, Server.Start returns after an interrupt or the
\* first Start error: once the shared ctx is cancelled, Server.Start has not
\* returned and no Shutdown hangs, some step is possible (the loop, a task
\* starting, a Start whose component was shut down returning, a Shutdown
\* being invoked or returning, g.Wait() returning).
C26_ReturnsAfterCancel ==
    (octx /\ srvPc # "returned" /\ \A j \in Comps : ~hangs[j]) =>
        ENABLED (\/ Launch
                 \/ \E i \in Comps :
                       \/ StartBegin(i)
                       \/ StartReturnAfterShutdown(i)
                       \/ ShutdownBegin(i)
                       \/ ShutdownReturn(i)
                 \/ ServerWait)

\* C27: when the StartClient attempts are serialized, the number of clients
\* admitted at the same time never exceeds maxClients.
C27_SerializedWithinCeiling ==
    /\ numClients <= maxClients
    /\ Cardinality({c \in Conns : InStartClient(c)}) <= maxClients

\* C27 witness: the ceiling is 1, one client is live and a later attempt has
\* been denied and closed.
C27_Witness ==
    \E c, d \in Conns :
        /\ maxClients = 1
        /\ numClients = 1
        /\ cstate[d] = ClientStateConnected
        /\ admit[c] = "denied"
        /\ startRet[c] # "none"

\* The StartClient calls that have run incrNumClients() and have not yet
\* returned through the deferred decrNumClients().
Counted == {c \in Conns : InStartClient(c) \/ pc[c][0] = "sc_decr"}

\* No StartClient call is in progress.
AllReturned ==
    \A c \in Conns : pc[c][0] \in {"idle", "wgAdd", "h_wgDone", "h_connClose", "done"}

\* C28: numClients is never negative and always equals the number of
\* StartClient calls that have incremented it and have not yet returned; once
\* every StartClient call has returned it is 0 again.
C28_CountMatchesLiveCalls ==
    /\ numClients >= 0
    /\ numClients = Cardinality(Counted)
    /\ AllReturned => numClients = 0

\* C28 witness: every connection has been through StartClient, two of them
\* were admitted, and the count is back to 0.
C28_Witness ==
    /\ \A c \in attempts : pc[c][0] = "done"
    /\ Cardinality({c \in Conns : admit[c] = "admitted"}) >= 2
    /\ numClients = 0

\* C29 as stated: when StartClient has returned for an admitted connection,
\* the Client's state is Closed and transport.Close has been invoked.
C29_ClosedAndTransportCloseInvoked ==
    \A c \in Conns :
        admit[c] = "admitted" /\ startRet[c] # "none" =>
            /\ cstate[c] = ClientStateClosed
            /\ tCloseCalls[c] >= 1

\* C30 as stated: when any Client.Close call has returned, transport.Close has
\* already completed.
C30_CloseReturnsAfterTransportClosed ==
    \A c \in Conns :
        \A t \in CloseReturned(c) : tCloseCalls[c] >= 1

\* C30 amended: when a Client.Close call has returned the state is Closed; the
\* call that made the transition returns after its transport.Close has
\* completed; every other call returns nil at once, when transport.Close has
\* completed or is still pending in the call that made the transition.
C30_FirstCloserReturnsAfterTransportClosed ==
    \A c \in Conns :
        \A t \in CloseReturned(c) :
            /\ cstate[c] = ClientStateClosed
            /\ t \in closedBy[c] => tCloseCalls[c] = 1 /\ conn[c] = "closed"
            /\ t \notin closedBy[c] =>
                  /\ closeRet[c][t] = "nil"
                  /\ \/ tCloseCalls[c] = 1
                     \/ \E u \in Threads \ {t} : pc[c][u] = "close_tclose"

\* C30 witness: the call that made the transition and a concurrent call have
\* both returned, and transport.Close has completed once.
C30_Witness ==
    \E c \in Conns :
        \E t, u \in Threads :
            /\ t \in closedBy[c]
            /\ u \notin closedBy[c]
            /\ {t, u} \subseteq CloseReturned(c)
            /\ tCloseCalls[c] = 1

\* The handler of c has finished after a successful upgrade.
HandlerFinished(c) == pc[c][0] = "done" /\ admit[c] # "none"

\* C31 as stated: over the whole run of the handler of one accepted
\* connection, the underlying connection's Close is invoked exactly once.
C31_ConnClosedExactlyOnce ==
    \A c \in Conns :
        /\ connCloseCalls[c] <= 1
        /\ HandlerFinished(c) => connCloseCalls[c] = 1

\* C31 amended: the underlying connection's Close is invoked twice over the
\* handler's run, once through transport.Close (Client.Close on the admitted
\* path, StartClient itself on the denied path) and once by the handler's
\* deferred conn.Close(); the connection is closed when the handler ends, and
\* both calls have been made by then unless another goroutine is still
\* inside Client.Close.
C31_ConnClosedByTransportAndHandler ==
    \A c \in Conns :
        /\ connCloseCalls[c] <= 2
        /\ tCloseCalls[c] <= 1
        /\ HandlerFinished(c) =>
              /\ conn[c] = "closed"
              /\ connCloseCalls[c] = 1 + tCloseCalls[c]
              /\ InClose(c) = {} => connCloseCalls[c] = 2

\* C31 witness: one handler finished on the admitted path and one on the
\* denied path.
C31_Witness ==
    \E c, d \in Conns :
        /\ HandlerFinished(c) /\ admit[c] = "admitted"
        /\ HandlerFinished(d) /\ admit[d] = "denied"

\* The earlier StartClient has admitted c and has not returned yet.
InOldStartClient(c) ==
    pc[c][0] \in {"o_new", "o_incr", "o_inRead", "o_select", "o_decr",
                  "o_close_lock", "o_close_cs", "o_close_readCh",
                  "o_close_tclose", "o_return"}

\* A step StartClient's goroutine can take without anything from the peer:
\* every step of it except a Read that returns a message or fails because
\* the peer closed the connection.
OldStepWithoutPeer(c) ==
    \/ OldNewClient(c)
    \/ OldIncr(c)
    \/ OldSelect(c)
    \/ conn[c] = "closed" /\ OldReadError(c)
    \/ OldDecr(c)
    \/ OldCloseLock(c, 0)
    \/ OldCloseCS(c, 0)
    \/ OldCloseReadCh(c, 0)
    \/ OldCloseTransport(c, 0)
    \/ OldReturn(c)

\* C32: in the earlier revision, once ctx is cancelled StartClient goes on to
\* its return without needing the peer to send data or to close: while it has
\* not returned it always has a step of its own to take.
C32_ReturnsAfterCancelWithoutPeer ==
    \A c \in Conns :
        srvCtx /\ InOldStartClient(c) => ENABLED OldStepWithoutPeer(c)

\* C33: in the earlier revision, an admitted connection that has been counted
\* stays counted in numClients until its transport has been closed: the count
\* is not decremented while transport.Close has not been called.
C33_CountedUntilTransportClosed ==
    \A c \in Conns :
        (/\ admit[c] = "admitted"
         /\ pc[c][0] \notin {"o_new", "o_incr"}
         /\ tCloseCalls[c] = 0) => contrib[c] = 1

\* C34: SetMaxClients changes only maxClients: numClients and every Client
\* (state, transport, running calls) stay as they are, also when the new
\* ceiling is below the current count; afterwards an attempt that loads a
\* count at or above the ceiling is denied without touching the count.
C34_SetMaxClientsOnlyCeiling ==
    [][/\ maxClients' # maxClients =>
             UNCHANGED <<numClients, connVars, clientVars, transportVars,
                         callerVars>>
       /\ \A c \in Conns :
             /\ (pc[c][0] = "sc_loadNum" /\ pc'[c][0] = "sc_loadMax") =>
                    hn'[c] = numClients
             /\ (pc[c][0] = "sc_loadMax" /\ pc'[c][0] # "sc_loadMax"
                 /\ hn[c] >= maxClients) =>
                    /\ admit'[c] = "denied"
                    /\ numClients' = numClients
                    /\ cstate'[c] = "none"]_vars

\* C34 witness: the ceiling was lowered to 0 while a Client was live; the
\* Client is still Connected and counted, and a later attempt was denied.
C34_Witness ==
    \E c, d \in Conns :
        /\ maxClients = 0
        /\ numClients = 1
        /\ cstate[c] = ClientStateConnected
        /\ conn[c] = "open"
        /\ admit[d] = "denied"

\* The three options have been applied.
AllOptionsApplied == OptApplied = OptionNames

\* Option x was applied before option y.
AppliedBefore(x, y) ==
    \E i, j \in 1 .. Len(optDone) : i < j /\ optDone[i] = x /\ optDone[j] = y

\* C35 as stated: after WithAddr(a), WithHTTPServeMux(m) and WithHTTPServer(s)
\* have been applied once each to the default Options, in any order,
\* Options.Server is s, s.Addr is a and s.Handler is m.
C35_OptionsOrderIndependent ==
    AllOptionsApplied =>
        /\ optState.o.Server = "custom"
        /\ optState.srv["custom"].Addr = optIn.a
        /\ optState.srv["custom"].Handler = optIn.m

\* C35 amended: in every order Options.Server is s, Options.Addr is a and
\* Options.ServeMux is m; s.Addr is a and s.Handler is m when a is not empty
\* and m is not nil. An empty a (a nil m) reaches s only when WithHTTPServer
\* is applied before WithAddr (before WithHTTPServeMux); applied after it,
\* WithHTTPServer leaves s.Addr as s had it (s.Handler as s had it).
C35_OptionsOrderIndependentWhenSet ==
    AllOptionsApplied =>
        /\ optState.o = [Addr |-> optIn.a, ServeMux |-> optIn.m, Server |-> "custom"]
        /\ optIn.a # "" => optState.srv["custom"].Addr = optIn.a
        /\ optIn.m # "nil" => optState.srv["custom"].Handler = optIn.m
        /\ (optIn.a = "" /\ AppliedBefore("WithHTTPServer", "WithAddr")) =>
              optState.srv["custom"].Addr = ""
        /\ (optIn.m = "nil" /\ AppliedBefore("WithHTTPServer", "WithHTTPServeMux")) =>
              optState.srv["custom"].Handler = "nil"
        /\ (optIn.a = "" /\ AppliedBefore("WithAddr", "WithHTTPServer")) =>
              optState.srv["custom"].Addr = optIn.sAddr
        /\ (optIn.m = "nil" /\ AppliedBefore("WithHTTPServeMux", "WithHTTPServer")) =>
              optState.srv["custom"].Handler = optIn.sHandler

\* C35 witness: WithHTTPServer was applied first, to a server without Addr
\* and Handler, and the server ended with the a and m of the other options.
C35_Witness ==
    /\ AllOptionsApplied
    /\ optDone[1] = "WithHTTPServer"
    /\ optIn.a = "addr" /\ optIn.m = "mux"
    /\ optIn.sAddr = "" /\ optIn.sHandler = "nil"
    /\ optState.srv["custom"] = [Addr |-> "addr", Handler |-> "mux"]

\* C36: websocketTransport.Write sends a binary frame exactly when the
\* transport's encoding is protobuf and a text frame for every other
\* encoding; the encoding is the one given to newWebsocketTransport and never
\* changes.
C36_FrameTypeFollowsEncoding ==
    /\ [](\A i \in 1 .. Len(wtSent) :
             /\ wtSent[i].messageType = "BinaryMessage" <=>
                    wt.encoding = EncodingTypeProtobuf
             /\ wtSent[i].messageType = "TextMessage" <=>
                    wt.encoding # EncodingTypeProtobuf)
    /\ [][wt' = wt]_vars

\* C36 witness: a protobuf transport has sent MaxWrites binary frames.
C36_Witness ==
    /\ wt.encoding = EncodingTypeProtobuf
    /\ Len(wtSent) = MaxWrites
    /\ \A i \in 1 .. Len(wtSent) : wtSent[i].messageType = "BinaryMessage"

\* The handlers that have run c.clientsWg.Add(1) and not yet the deferred
\* c.clientsWg.Done().
WgHolders ==
    {c \in Conns : pc[c][0] \in {"sc_loadNum", "sc_loadMax", "sc_denyClose",
                                 "sc_incr", "h_wgDone"}
                   \/ InStartClient(c) \/ pc[c][0] = "sc_decr"}

\* The handshake of c failed: the handler returned right after Upgrade.
HandshakeFailed(c) == pc[c][0] = "done" /\ conn[c] = "none"

\* C37: every clientsWg.Add(1) of the upgrade handler is matched by exactly
\* one clientsWg.Done on every exit path, so the wait-group counter is the
\* number of handlers between the two, is never negative and is 0 once every
\* handler has finished; a failed handshake leaves the counter and numClients
\* alone.
C37_WaitGroupBalanced ==
    /\ clientsWg >= 0
    /\ clientsWg = Cardinality(WgHolders)
    /\ (\A c \in Conns : pc[c][0] \in {"idle", "done"}) => clientsWg = 0
    /\ \A c \in Conns :
          HandshakeFailed(c) =>
              /\ c \notin WgHolders /\ c \notin Counted
              /\ admit[c] = "none" /\ contrib[c] = 0
    /\ numClients = Cardinality(Counted)

\* C37 witness: two handlers have finished, one after a failed handshake and
\* one whose StartClient returned an error, and the counter is back to 0.
C37_Witness ==
    \E a, c \in Conns :
        /\ HandshakeFailed(a)
        /\ HandlerFinished(c) /\ admit[c] = "admitted" /\ startRet[c] = "readErr"
        /\ clientsWg = 0

\* C38: a Client's readCh is closed at most once under every interleaving of
\* the read path and concurrent Close calls, in both revisions, and exactly
\* once by the time StartClient has returned and no Close call is still on
\* its way to close(c.readCh); nothing is sent on readCh in either revision.
C38_ReadChClosedOnce ==
    \A c \in Conns :
        /\ readChCloses[c] <= 1
        /\ (/\ admit[c] = "admitted"
            /\ startRet[c] # "none"
            /\ \A t \in Threads : pc[c][t] # "o_close_readCh") =>
               readChCloses[c] = 1

\* C38 witness: in the earlier revision StartClient's Close and another
\* goroutine's Close have both returned and readCh was closed once.
C38_Witness ==
    \E c \in Conns :
        \E t \in Callers :
            /\ revision = "earlier"
            /\ startRet[c] # "none"
            /\ closeRet[c][0] # "none"
            /\ closeRet[c][t] # "none"
            /\ readChCloses[c] = 1

=============================================================================
